---- MODULE Spec2Model ----
(***************************************************************************)
(* Model of team_ex_2.py: a batch of Wikipedia page titles is fetched and   *)
(* each page's references are saved to a text file, under one of three      *)
(* execution strategies (run_sequential, run_threads, run_processes).       *)
(*                                                                          *)
(* Text (titles, file names, file contents) is a sequence of one-character  *)
(* strings.  The output directory is a function from file name to content.  *)
(***************************************************************************)
EXTENDS Integers, Sequences, FiniteSets, TLC

(* ------------------------------ bounds ------------------------------- *)

\* longest batch of titles handed to a run
MaxLen == 3
\* largest pool size (max_workers) tried for the two pool strategies
MaxWorkers == 2
\* most injected faults (write_text raising, worker process dying) per run
MaxFaults == 1
\* longest batch that is run a second time
MaxRerunLen == 2

(* ------------------------------ utilities ---------------------------- *)

\* name[:150] in safe_filename
MaxNameLen == 150

\* the character class [\\/:*?"<>|] of safe_filename
IllegalChars == {"\\", "/", ":", "*", "?", "\"", "<", ">", "|"}

\* the character class \s
Whitespace == {" ", "\t", "\n", "\r"}

RECURSIVE LStrip(_, _)
LStrip(s, class) ==
    IF s # <<>> /\ Head(s) \in class THEN LStrip(Tail(s), class) ELSE s

RECURSIVE RStrip(_, _)
RStrip(s, class) ==
    IF s # <<>> /\ s[Len(s)] \in class
    THEN RStrip(SubSeq(s, 1, Len(s) - 1), class)
    ELSE s

\* re.sub(r"[class]+", rep, s): every maximal run of class characters becomes rep
RECURSIVE ReSubRuns(_, _, _)
ReSubRuns(s, class, rep) ==
    IF s = <<>> THEN <<>>
    ELSE IF Head(s) \in class
         THEN <<rep>> \o ReSubRuns(LStrip(Tail(s), class), class, rep)
         ELSE <<Head(s)>> \o ReSubRuns(Tail(s), class, rep)

Truncate(s, n) == SubSeq(s, 1, IF Len(s) < n THEN Len(s) ELSE n)

safe_filename(name) ==
    LET n1 == ReSubRuns(name, IllegalChars, "_")
        n2 == RStrip(LStrip(ReSubRuns(n1, Whitespace, " "), Whitespace), Whitespace)
    IN  RStrip(Truncate(n2, MaxNameLen), Whitespace)

\* Join that ends every entry with a newline instead of separating them
RECURSIVE Join_TrailingNewline(_)
Join_TrailingNewline(refs) ==
    IF refs = <<>> THEN <<>>
    ELSE refs[1] \o <<"\n">> \o Join_TrailingNewline(Tail(refs))

\* "\n".join(references)
RECURSIVE Join(_)
Join(refs) ==
    IF refs = <<>> THEN <<>>
    ELSE IF Len(refs) = 1 THEN refs[1]
    ELSE refs[1] \o <<"\n">> \o Join(Tail(refs))

TxtExt == <<".", "t", "x", "t">>

(* --------------------------- content source -------------------------- *)

r1 == <<"r", "1">>
r2 == <<"r", "2">>
r3 == <<"r", "3">>

\* What wikipedia.page(title, auto_suggest=False) does for each title of the
\* fixture: it returns a page (whose title may differ from the requested one)
\* or raises one of the library's exceptions.
Page(t, refs) == [exc |-> "None", title |-> t, references |-> refs, msg |-> ""]
Raises(e, m)  == [exc |-> e, title |-> <<>>, references |-> <<>>, msg |-> m]

Wikipedia ==
    ( <<"A">>      :> Page(<<"A">>, <<r1, r2>>)
   @@ <<"a">>      :> Page(<<"A">>, <<r1, r2>>)
   @@ <<"B">>      :> Raises("HTTPTimeoutError", "timed out")
   @@ <<"C">>      :> Page(<<"C">>, <<>>)
   @@ <<"Q", "/">> :> Page(<<"Q", "/">>, <<r1, r2>>)
   @@ <<"Q", ":">> :> Page(<<"Q", ":">>, <<r3>>)
   @@ <<"D">>      :> Raises("DisambiguationError", "may refer to")
   @@ <<"P">>      :> Raises("PageError", "does not match any pages")
   @@ <<"U">>      :> Raises("Exception", "connection reset") )

AllTitles == DOMAIN Wikipedia

\* the titles the batches of Spec are drawn from
Titles == { <<"A">>, <<"a">>, <<"B">>, <<"C">>, <<"Q", "/">>, <<"Q", ":">> }

None == <<>>

FetchResult(t, refs, e) == [title |-> t, references |-> refs, error |-> e]

\* fetch_page_references with `except Exception` as the first handler
fetch_page_references_CatchAllFirst(title) ==
    LET page == Wikipedia[title]
    IN  IF page.exc = "None"
        THEN FetchResult(page.title, page.references, None)
        ELSE FetchResult(title, <<>>, <<"Unexpected", page.msg>>)

fetch_page_references(title) ==
    LET page == Wikipedia[title]
    IN  CASE page.exc = "None" ->
                FetchResult(page.title, page.references, None)
          [] page.exc = "DisambiguationError" ->
                FetchResult(title, <<>>, <<"Disambiguation", page.msg>>)
          [] page.exc = "PageError" ->
                FetchResult(title, <<>>, <<"PageError", page.msg>>)
          [] page.exc = "HTTPTimeoutError" ->
                FetchResult(title, <<>>, <<"Timeout", page.msg>>)
          [] OTHER ->
                FetchResult(title, <<>>, <<"Unexpected", page.msg>>)

\* fn of save_references: the file name a successful result is saved under
FileName(result) == safe_filename(result.title) \o TxtExt

(* ------------------------------- state ------------------------------- *)

VARIABLES
    mode,         \* args.mode: "seq", "threads" or "procs"
    max_workers,  \* size of the pool (1 under "seq", which has no pool)
    titles,       \* the batch handed to the run
    pc,           \* per submission: where its processing stands
    res,          \* per submission: the FetchResult, once fetched
    ret,          \* per submission: what processing handed back (result or exception)
    fs,           \* the output directory: file name -> content
    touched,      \* who opened which file for writing in the current run
    lines,        \* status lines printed by the current run, in order
    ok,           \* counter ok of the current run
    skipped,      \* counter skipped of the current run
    rpc,          \* the run itself: "running", "returned" or "raised"
    broken,       \* the process pool lost a worker process
    faults,       \* faults injected so far in the current run
    prev          \* summary of the previous run over the same batch, if any

vars == << mode, max_workers, titles, pc, res, ret, fs, touched, lines,
           ok, skipped, rpc, broken, faults, prev >>

Modes == {"seq", "threads", "procs"}

RECURSIVE SeqsUpTo(_, _)
SeqsUpTo(S, n) ==
    IF n = 0 THEN {<<>>}
    ELSE LET shorter == SeqsUpTo(S, n - 1)
         IN  shorter \cup { Append(s, x) : s \in { q \in shorter : Len(q) = n - 1 }, x \in S }

Batches == SeqsUpTo(Titles, MaxLen)

PoolSizes(m) == IF m = "seq" THEN {1} ELSE 1 .. MaxWorkers

NoResult == [title |-> <<>>, references |-> <<>>, error |-> <<"unset">>]
NoRet    == [kind |-> "none", name |-> <<>>, err |-> None]
Returned(name, err) == [kind |-> "result", name |-> name, err |-> err]
Raised(e, msg)      == [kind |-> "exception", name |-> <<>>, err |-> <<e, msg>>]

NoRun == [mode |-> "none"]

Idx == 1 .. Len(titles)

Processing(i) == pc[i] \in {"fetch", "open", "write"}

\* the state in which a first run over one of the given batches starts
InitOver(batches) ==
    /\ mode \in Modes
    /\ max_workers \in PoolSizes(mode)
    /\ titles \in batches
    /\ pc = [i \in Idx |-> "new"]
    /\ res = [i \in Idx |-> NoResult]
    /\ ret = [i \in Idx |-> NoRet]
    /\ fs = <<>>
    /\ touched = {}
    /\ lines = <<>>
    /\ ok = 0
    /\ skipped = 0
    /\ rpc = "running"
    /\ broken = FALSE
    /\ faults = 0
    /\ prev = NoRun

Init == InitOver(Batches)

\* every title of the fixture on its own
InitAllTitles == InitOver({ <<t>> : t \in AllTitles })

(* ----------------------------- file system --------------------------- *)

\* open(path, "w"): the file is created, or truncated if it exists
OpenTruncate(dir, fn) ==
    [f \in DOMAIN dir \cup {fn} |-> IF f = fn THEN <<>> ELSE dir[f]]

\* write(text) on a handle positioned at offset 0: text replaces the first
\* Len(text) characters of whatever the file holds by now
WriteAtStart(dir, fn, text) ==
    LET old == IF fn \in DOMAIN dir THEN dir[fn] ELSE <<>>
        new == text \o SubSeq(old, Len(text) + 1, Len(old))
    IN  [f \in DOMAIN dir \cup {fn} |-> IF f = fn THEN new ELSE dir[f]]

(* ------------------------- the per-item pipeline --------------------- *)

\* Fetched for a save_references that leaves an existing file alone and
\* returns None for it
Fetched_SkipsExisting(i) ==
    LET r == fetch_page_references(titles[i])
    IN  /\ res' = [res EXCEPT ![i] = r]
        /\ IF r.error # None
           THEN /\ pc' = [pc EXCEPT ![i] = "done"]
                /\ ret' = [ret EXCEPT ![i] = Returned(titles[i], r.error)]
           ELSE IF FileName(r) \in DOMAIN fs
           THEN /\ pc' = [pc EXCEPT ![i] = "done"]
                /\ ret' = [ret EXCEPT ![i] = Returned(titles[i], <<"Exists", "">>)]
           ELSE /\ pc' = [pc EXCEPT ![i] = "open"]
                /\ ret' = ret

\* Fetched without the error test: a failed fetch goes on to be saved
Fetched_SavesFailures(i) ==
    LET r == fetch_page_references(titles[i])
    IN  /\ res' = [res EXCEPT ![i] = r]
        /\ pc' = [pc EXCEPT ![i] = "open"]
        /\ ret' = ret

\* Fetched that leaves a failed item where it is, to be fetched again
Fetched_RetriesFailures(i) ==
    LET r == fetch_page_references(titles[i])
    IN  /\ res' = [res EXCEPT ![i] = r]
        /\ IF r.error # None
           THEN /\ pc' = pc
                /\ ret' = ret
           ELSE /\ pc' = [pc EXCEPT ![i] = "open"]
                /\ ret' = ret

\* fetch_page_references(t), then the error test of save_references /
\* _process_worker: a failed fetch comes back at once with no file touched
Fetched(i) ==
    LET r == fetch_page_references(titles[i])
    IN  /\ res' = [res EXCEPT ![i] = r]
        /\ IF r.error # None
           THEN /\ pc' = [pc EXCEPT ![i] = "done"]
                /\ ret' = [ret EXCEPT ![i] = Returned(titles[i], r.error)]
           ELSE /\ pc' = [pc EXCEPT ![i] = "open"]
                /\ ret' = ret

\* path.write_text(text), first half: the file is opened for writing
Opened(i) ==
    /\ fs' = OpenTruncate(fs, FileName(res[i]))
    /\ touched' = touched \cup {[i |-> i, fn |-> FileName(res[i])]}
    /\ pc' = [pc EXCEPT ![i] = "write"]

\* Written handing back the requested title instead of p.name
Written_ReturnsTitle(i) ==
    /\ fs' = WriteAtStart(fs, FileName(res[i]), Join(res[i].references))
    /\ pc' = [pc EXCEPT ![i] = "done"]
    /\ ret' = [ret EXCEPT ![i] = Returned(titles[i], None)]

\* path.write_text(text), second half: the text is written and the path returned
Written(i) ==
    /\ fs' = WriteAtStart(fs, FileName(res[i]), Join(res[i].references))
    /\ pc' = [pc EXCEPT ![i] = "done"]
    /\ ret' = [ret EXCEPT ![i] = Returned(FileName(res[i]), None)]

\* path.write_text raises OSError: at open (nothing changed) or at write
\* (the file stays as open left it); the exception tells which
WriteTextRaised(i) ==
    /\ pc[i] \in {"open", "write"}
    /\ faults < MaxFaults
    /\ faults' = faults + 1
    /\ ret' = [ret EXCEPT ![i] = Raised("OSError", pc[i])]

(* ----------------------------- run_sequential ------------------------ *)

\* SeqAt for a loop that does not wait for the earlier titles to be finished
SeqAt_AnyOrder(i) ==
    /\ mode = "seq"
    /\ rpc = "running"

\* the for loop of run_sequential is at submission i
SeqAt(i) ==
    /\ mode = "seq"
    /\ rpc = "running"
    /\ \A j \in 1 .. (i - 1) : pc[j] = "reported"

SeqFetch(i) ==
    /\ SeqAt(i)
    /\ pc[i] = "new"
    /\ Fetched(i)
    /\ UNCHANGED << mode, max_workers, titles, fs, touched, lines, ok, skipped,
                    rpc, broken, faults, prev >>

SeqOpen(i) ==
    /\ SeqAt(i)
    /\ pc[i] = "open"
    /\ Opened(i)
    /\ UNCHANGED << mode, max_workers, titles, res, ret, lines, ok, skipped,
                    rpc, broken, faults, prev >>

SeqWrite(i) ==
    /\ SeqAt(i)
    /\ pc[i] = "write"
    /\ Written(i)
    /\ UNCHANGED << mode, max_workers, titles, res, touched, lines, ok, skipped,
                    rpc, broken, faults, prev >>

\* nothing in run_sequential catches what save_references raises
SeqWriteRaises(i) ==
    /\ SeqAt(i)
    /\ WriteTextRaised(i)
    /\ pc' = [pc EXCEPT ![i] = "done"]
    /\ rpc' = "raised"
    /\ UNCHANGED << mode, max_workers, titles, res, fs, touched, lines, ok, skipped,
                    broken, prev >>

Wrote(i, name)      == [i |-> i, tag |-> "wrote", what |-> name, why |-> None]
Skipped(i, t, why)  == [i |-> i, tag |-> "skipped", what |-> t, why |-> why]

\* SeqReport testing `p is not None or res` instead of `p`: always true
SeqReport_CountsAllOk(i) ==
    /\ SeqAt(i)
    /\ pc[i] = "done"
    /\ ok' = ok + 1
    /\ skipped' = skipped
    /\ lines' = Append(lines, Wrote(i, ret[i].name))
    /\ pc' = [pc EXCEPT ![i] = "reported"]
    /\ UNCHANGED << mode, max_workers, titles, res, ret, fs, touched,
                    rpc, broken, faults, prev >>

SeqReport(i) ==
    /\ SeqAt(i)
    /\ pc[i] = "done"
    /\ IF ret[i].err = None
       THEN /\ ok' = ok + 1
            /\ skipped' = skipped
            /\ lines' = Append(lines, Wrote(i, ret[i].name))
       ELSE /\ skipped' = skipped + 1
            /\ ok' = ok
            /\ lines' = Append(lines, Skipped(i, titles[i], res[i].error))
    /\ pc' = [pc EXCEPT ![i] = "reported"]
    /\ UNCHANGED << mode, max_workers, titles, res, ret, fs, touched,
                    rpc, broken, faults, prev >>

(* ------------------ run_threads / run_processes: the pool ------------ *)

Pool == mode \in {"threads", "procs"}

\* ex.submit(_process_worker, t, str(outdir)) in the dict comprehension, one
\* title after the other; a process pool that lost a worker refuses the task
Submit(i) ==
    /\ Pool
    /\ rpc = "running"
    /\ pc[i] = "new"
    /\ \A j \in 1 .. (i - 1) : pc[j] # "new"
    /\ IF broken
       THEN /\ rpc' = "raised"
            /\ pc' = pc
       ELSE /\ rpc' = rpc
            /\ pc' = [pc EXCEPT ![i] = "submitted"]
    /\ UNCHANGED << mode, max_workers, titles, res, ret, fs, touched, lines,
                    ok, skipped, broken, faults, prev >>

\* Start in a pool that starts a worker for every queued task, whatever its size
Start_IgnoresPoolSize(i) ==
    /\ Pool
    /\ pc[i] = "submitted"
    /\ \A j \in 1 .. (i - 1) : pc[j] # "submitted"
    /\ pc' = [pc EXCEPT ![i] = "fetch"]
    /\ UNCHANGED << mode, max_workers, titles, res, ret, fs, touched, lines,
                    ok, skipped, rpc, broken, faults, prev >>

\* a free worker of the pool takes the oldest queued task
Start(i) ==
    /\ Pool
    /\ pc[i] = "submitted"
    /\ \A j \in 1 .. (i - 1) : pc[j] # "submitted"
    /\ Cardinality({ j \in Idx : Processing(j) }) < max_workers
    /\ pc' = [pc EXCEPT ![i] = "fetch"]
    /\ UNCHANGED << mode, max_workers, titles, res, ret, fs, touched, lines,
                    ok, skipped, rpc, broken, faults, prev >>

\* _process_worker: res = fetch_page_references(title); error results return
WorkerFetch(i) ==
    /\ Pool
    /\ pc[i] = "fetch"
    /\ Fetched(i)
    /\ UNCHANGED << mode, max_workers, titles, fs, touched, lines, ok, skipped,
                    rpc, broken, faults, prev >>

\* _process_worker: p = save_references(res, Path(outdir))
WorkerOpen(i) ==
    /\ Pool
    /\ pc[i] = "open"
    /\ Opened(i)
    /\ UNCHANGED << mode, max_workers, titles, res, ret, lines, ok, skipped,
                    rpc, broken, faults, prev >>

\* WorkerWrite in which the worker itself adds one to ok
WorkerWrite_CountsOk(i) ==
    /\ Pool
    /\ pc[i] = "write"
    /\ Written(i)
    /\ ok' = ok + 1
    /\ UNCHANGED << mode, max_workers, titles, res, touched, lines, skipped,
                    rpc, broken, faults, prev >>

WorkerWrite(i) ==
    /\ Pool
    /\ pc[i] = "write"
    /\ Written(i)
    /\ UNCHANGED << mode, max_workers, titles, res, touched, lines, ok, skipped,
                    rpc, broken, faults, prev >>

\* WorkerWriteRaises in a pool that cancels the unfinished tasks of the batch
\* when one task raises
WorkerWriteRaises_CancelsSiblings(i) ==
    /\ Pool
    /\ pc[i] \in {"open", "write"}
    /\ faults < MaxFaults
    /\ faults' = faults + 1
    /\ pc' = [j \in Idx |->
                IF pc[j] \in {"submitted", "fetch", "open", "write"} THEN "done" ELSE pc[j]]
    /\ ret' = [j \in Idx |->
                IF j = i THEN Raised("OSError", pc[i])
                ELSE IF pc[j] \in {"submitted", "fetch", "open", "write"}
                     THEN Returned(titles[j], <<"Cancelled", "">>)
                     ELSE ret[j]]
    /\ UNCHANGED << mode, max_workers, titles, res, fs, touched, lines, ok, skipped,
                    rpc, broken, prev >>

\* what _process_worker raises is stored in the task's future
WorkerWriteRaises(i) ==
    /\ Pool
    /\ WriteTextRaised(i)
    /\ pc' = [pc EXCEPT ![i] = "done"]
    /\ UNCHANGED << mode, max_workers, titles, res, fs, touched, lines, ok, skipped,
                    rpc, broken, prev >>

\* a worker process dies while it runs task i: the process pool is broken,
\* every future not yet complete fails with BrokenProcessPool and the other
\* worker processes are terminated where they stand
WorkerDies(i) ==
    /\ mode = "procs"
    /\ Processing(i)
    /\ faults < MaxFaults
    /\ faults' = faults + 1
    /\ broken' = TRUE
    /\ pc' = [j \in Idx |->
                IF pc[j] \in {"submitted", "fetch", "open", "write"} THEN "done" ELSE pc[j]]
    /\ ret' = [j \in Idx |->
                IF pc[j] \in {"submitted", "fetch", "open", "write"}
                THEN Raised("BrokenProcessPool", "") ELSE ret[j]]
    /\ UNCHANGED << mode, max_workers, titles, res, fs, touched, lines, ok, skipped,
                    rpc, prev >>

\* Report with an except clause that prints but forgets skipped += 1
Report_ForgetsSkipCount(i) ==
    /\ Pool
    /\ rpc = "running"
    /\ \A j \in Idx : pc[j] # "new"
    /\ pc[i] = "done"
    /\ IF ret[i].kind = "result" /\ ret[i].err = None
       THEN /\ ok' = ok + 1
            /\ skipped' = skipped
            /\ lines' = Append(lines, Wrote(i, ret[i].name))
       ELSE /\ skipped' = IF ret[i].kind = "exception" THEN skipped ELSE skipped + 1
            /\ ok' = ok
            /\ lines' = Append(lines, Skipped(i, titles[i], ret[i].err))
    /\ pc' = [pc EXCEPT ![i] = "reported"]
    /\ UNCHANGED << mode, max_workers, titles, res, ret, fs, touched,
                    rpc, broken, faults, prev >>

\* Report with an except clause that counts but prints nothing
Report_SilentOnException(i) ==
    /\ Pool
    /\ rpc = "running"
    /\ \A j \in Idx : pc[j] # "new"
    /\ pc[i] = "done"
    /\ IF ret[i].kind = "result" /\ ret[i].err = None
       THEN /\ ok' = ok + 1
            /\ skipped' = skipped
            /\ lines' = Append(lines, Wrote(i, ret[i].name))
       ELSE /\ skipped' = skipped + 1
            /\ ok' = ok
            /\ lines' = IF ret[i].kind = "exception" THEN lines
                        ELSE Append(lines, Skipped(i, titles[i], ret[i].err))
    /\ pc' = [pc EXCEPT ![i] = "reported"]
    /\ UNCHANGED << mode, max_workers, titles, res, ret, fs, touched,
                    rpc, broken, faults, prev >>

\* Report for a loop `for fut in futures: fut.result()`, which waits for the
\* futures in the order of their submission
Report_InSubmissionOrder(i) ==
    /\ Pool
    /\ rpc = "running"
    /\ \A j \in Idx : pc[j] # "new"
    /\ \A j \in 1 .. (i - 1) : pc[j] = "reported"
    /\ pc[i] = "done"
    /\ IF ret[i].kind = "result" /\ ret[i].err = None
       THEN /\ ok' = ok + 1
            /\ skipped' = skipped
            /\ lines' = Append(lines, Wrote(i, ret[i].name))
       ELSE /\ skipped' = skipped + 1
            /\ ok' = ok
            /\ lines' = Append(lines, Skipped(i, titles[i], ret[i].err))
    /\ pc' = [pc EXCEPT ![i] = "reported"]
    /\ UNCHANGED << mode, max_workers, titles, res, ret, fs, touched,
                    rpc, broken, faults, prev >>

\* one round of `for fut in as_completed(futures)`: any future that is
\* complete and not yet handed out; fut.result() returns or raises
Report(i) ==
    /\ Pool
    /\ rpc = "running"
    /\ \A j \in Idx : pc[j] # "new"
    /\ pc[i] = "done"
    /\ IF ret[i].kind = "result" /\ ret[i].err = None
       THEN /\ ok' = ok + 1
            /\ skipped' = skipped
            /\ lines' = Append(lines, Wrote(i, ret[i].name))
       ELSE /\ skipped' = skipped + 1
            /\ ok' = ok
            /\ lines' = Append(lines, Skipped(i, titles[i], ret[i].err))
    /\ pc' = [pc EXCEPT ![i] = "reported"]
    /\ UNCHANGED << mode, max_workers, titles, res, ret, fs, touched,
                    rpc, broken, faults, prev >>

(* ------------------------------ the run ------------------------------ *)

\* Return for a run that cannot end before it has reported some item
Return_NeedsAnItem ==
    /\ rpc = "running"
    /\ Len(titles) > 0
    /\ \A i \in Idx : pc[i] = "reported"
    /\ rpc' = "returned"
    /\ UNCHANGED << mode, max_workers, titles, pc, res, ret, fs, touched, lines,
                    ok, skipped, broken, faults, prev >>

\* Return for a run that ends as soon as no complete task is left to report,
\* without waiting for the tasks still queued or running
Return_WithoutWaiting ==
    /\ rpc = "running"
    /\ \A i \in Idx : pc[i] \notin {"new", "done"}
    /\ rpc' = "returned"
    /\ UNCHANGED << mode, max_workers, titles, pc, res, ret, fs, touched, lines,
                    ok, skipped, broken, faults, prev >>

\* return ok, skipped
Return ==
    /\ rpc = "running"
    /\ \A i \in Idx : pc[i] = "reported"
    /\ rpc' = "returned"
    /\ UNCHANGED << mode, max_workers, titles, pc, res, ret, fs, touched, lines,
                    ok, skipped, broken, faults, prev >>

Summary ==
    [mode |-> mode, rpc |-> rpc, ok |-> ok, skipped |-> skipped,
     pc |-> pc, ret |-> ret, touched |-> touched, fs |-> fs, broken |-> broken]

\* the program is run a second time on the same batch and output directory
Rerun ==
    /\ rpc \in {"returned", "raised"}
    /\ prev = NoRun
    /\ Len(titles) <= MaxRerunLen
    /\ prev' = Summary
    /\ mode' \in Modes
    /\ max_workers' \in PoolSizes(mode')
    /\ pc' = [i \in Idx |-> "new"]
    /\ res' = [i \in Idx |-> NoResult]
    /\ ret' = [i \in Idx |-> NoRet]
    /\ touched' = {}
    /\ lines' = <<>>
    /\ ok' = 0
    /\ skipped' = 0
    /\ rpc' = "running"
    /\ broken' = FALSE
    /\ faults' = 0
    /\ UNCHANGED << titles, fs >>

Next ==
    \/ \E i \in Idx : SeqFetch(i)
    \/ \E i \in Idx : SeqOpen(i)
    \/ \E i \in Idx : SeqWrite(i)
    \/ \E i \in Idx : SeqWriteRaises(i)
    \/ \E i \in Idx : SeqReport(i)
    \/ \E i \in Idx : Submit(i)
    \/ \E i \in Idx : Start(i)
    \/ \E i \in Idx : WorkerFetch(i)
    \/ \E i \in Idx : WorkerOpen(i)
    \/ \E i \in Idx : WorkerWrite(i)
    \/ \E i \in Idx : WorkerWriteRaises(i)
    \/ \E i \in Idx : WorkerDies(i)
    \/ \E i \in Idx : Report(i)
    \/ Return
    \/ Rerun

Spec == Init /\ [][Next]_vars

\* a step the program takes on its own: any step but an injected fault (a
\* raising write, a dying worker process) and the start of a second run
RunStep ==
    \E i \in Idx :
        \/ SeqFetch(i) \/ SeqOpen(i) \/ SeqWrite(i) \/ SeqReport(i)
        \/ Submit(i) \/ Start(i)
        \/ WorkerFetch(i) \/ WorkerOpen(i) \/ WorkerWrite(i)
        \/ Report(i)

\* The interpreter keeps running the orchestrator (the loop of
\* run_sequential, the submissions, the as_completed loop and the return),
\* the pool hands a queued task to a free worker, and a worker that has
\* started a task keeps running it, each call returning or raising: the
\* program does not stop while a step of its own can be taken.
Fairness ==
    /\ WF_vars(RunStep)
    /\ WF_vars(Return)

SpecFair == Init /\ [][Next]_vars /\ Fairness

\* the same program run over each single title of the whole fixture
SpecAllTitles == InitAllTitles /\ [][Next]_vars

(* ------------------------------ properties --------------------------- *)

N == Len(titles)

RunReturned == rpc = "returned"

\* submissions of the current run whose processing raised or was cut short
Excepted == { i \in Idx : ret[i].kind = "exception" }

\* submissions of the current run counted as written
Oks == { i \in Idx : pc[i] = "reported" /\ ret[i].kind = "result" /\ ret[i].err = None }

LinesOf(i) == { k \in 1 .. Len(lines) : lines[k].i = i }

\* the output directory as the current run found it
StartFs == IF prev = NoRun THEN <<>> ELSE prev.fs

\* C1: whichever strategy ran and whatever the batch (duplicates, failing
\* items, raising tasks), the pair a run returns satisfies ok + skipped = n.
C1_AggregateCountsEveryItem ==
    RunReturned => ok + skipped = N

C1_Witness ==
    /\ RunReturned
    /\ mode = "threads"
    /\ N = 3
    /\ titles[1] = titles[3]
    /\ ok = 2
    /\ skipped = 1

\* C2: an identifier never has two status lines; every line is a "wrote" or
\* a "skipped" line; and once the run has returned every submission has
\* exactly one outcome and exactly one line.
C2_OneStatusLinePerItem ==
    /\ \A i \in Idx : Cardinality(LinesOf(i)) <= 1
    /\ \A k \in 1 .. Len(lines) : lines[k].tag \in {"wrote", "skipped"}
    /\ RunReturned =>
          \A i \in Idx : /\ Cardinality(LinesOf(i)) = 1
                         /\ ret[i].kind \in {"result", "exception"}

C2_Witness ==
    /\ RunReturned
    /\ mode = "procs"
    /\ N = 3
    /\ Len(lines) = 3
    /\ lines[1].i = 3
    /\ lines[1].tag = "wrote"
    /\ lines[3].tag = "skipped"

\* C3: when the persisting of an item raises, the exception does not escape
\* the run (the item is counted as skipped and the run goes on).
C3_RaisingItemNeverEscapesRun ==
    \A i \in Idx : (ret[i].kind = "exception" /\ ret[i].err[1] = "OSError") => rpc # "raised"

\* C4: only an item whose fetch succeeded opens a file, and only the file
\* named after its result; every other file of the output directory is as
\* the run found it.
C4_FailureWritesNoFile ==
    /\ \A t \in touched : /\ res[t.i].error = None
                          /\ t.fn = FileName(res[t.i])
    /\ DOMAIN StartFs \subseteq DOMAIN fs
    /\ \A f \in DOMAIN fs :
          f \notin { t.fn : t \in touched } => f \in DOMAIN StartFs /\ fs[f] = StartFs[f]

C4_Witness ==
    /\ RunReturned
    /\ mode = "threads"
    /\ titles = << <<"B">>, <<"A">> >>
    /\ prev # NoRun
    /\ skipped = 1
    /\ { t.fn : t \in touched } = { <<"A">> \o TxtExt }
    /\ DOMAIN fs = { <<"A">> \o TxtExt }

(* two runs over the same batch and output directory, as run summaries *)

Cur == Summary

IsPoolRun(r) == r.mode \in {"threads", "procs"}

Ended(r) == r.rpc \in {"returned", "raised"}

\* no task of run r raised or was cut short
Clean(r) == \A i \in Idx : r.ret[i].kind # "exception"

\* in run r the task of submission i, and no other, raised
OnlyRaised(r, i) ==
    /\ r.ret[i].kind = "exception"
    /\ r.ret[i].err[1] = "OSError"
    /\ \A j \in Idx \ {i} : r.ret[j].kind # "exception"

\* the same writes failed, in the same way, in runs a and b
SameFailures(a, b) ==
    \A i \in Idx :
        (a.ret[i].kind = "exception" \/ b.ret[i].kind = "exception")
        => a.ret[i] = b.ret[i]

Keys(r) == { t.fn : t \in r.touched }

\* file fn was opened in run r by a submission other than j
SharedKey(r, j, fn) == \E t \in r.touched : t.fn = fn /\ t.i # j

\* every submission but i has in run f the returned pair (file name or
\* title, error) it has in run c, and its file has the same content
SiblingsSameFiles(f, c, i) ==
    \A j \in Idx \ {i} :
        /\ f.ret[j] = c.ret[j]
        /\ f.ret[j].err = None
              => /\ f.ret[j].name \in DOMAIN f.fs \cap DOMAIN c.fs
                 /\ f.fs[f.ret[j].name] = c.fs[f.ret[j].name]

\* the same, the content being compared only for a file that no other
\* submission opens
SiblingsSame(f, c, i) ==
    \A j \in Idx \ {i} :
        /\ f.ret[j] = c.ret[j]
        /\ (f.ret[j].err = None /\ ~SharedKey(f, j, f.ret[j].name)
                                /\ ~SharedKey(c, j, f.ret[j].name))
              => /\ f.ret[j].name \in DOMAIN f.fs \cap DOMAIN c.fs
                 /\ f.fs[f.ret[j].name] = c.fs[f.ret[j].name]

\* C5 as stated: under run_threads and run_processes, when the task of
\* exactly one submission raises, every other submission has the outcome (ok
\* or skipped, same written file) it has in a pool run where no task raises.
C5_RaisingTaskLeavesSiblingsAndFilesAlone ==
    \A i \in Idx :
        (/\ prev # NoRun
         /\ IsPoolRun(prev) /\ Pool
         /\ prev.rpc = "returned" /\ RunReturned)
        => /\ (OnlyRaised(Cur, i) /\ Clean(prev)) => SiblingsSameFiles(Cur, prev, i)
           /\ (OnlyRaised(prev, i) /\ Clean(Cur)) => SiblingsSameFiles(prev, Cur, i)

\* C5 amended: under run_threads and run_processes, when the task of exactly
\* one submission raises, the run is not aborted and, once it has returned,
\* every other submission has the result (ok or skipped, same file name) it
\* has in a pool run where no task raises, and the same file content unless
\* another submission is saved under the same file name.
C5_RaisingTaskLeavesSiblingsAlone ==
    \A i \in Idx :
        /\ (Pool /\ OnlyRaised(Cur, i)) => rpc # "raised"
        /\ (/\ prev # NoRun
            /\ IsPoolRun(prev) /\ Pool
            /\ prev.rpc = "returned" /\ RunReturned)
           => /\ (OnlyRaised(Cur, i) /\ Clean(prev)) => SiblingsSame(Cur, prev, i)
              /\ (OnlyRaised(prev, i) /\ Clean(Cur)) => SiblingsSame(prev, Cur, i)

C5_Witness ==
    /\ prev # NoRun
    /\ prev.mode = "procs" /\ prev.rpc = "returned" /\ Clean(prev)
    /\ mode = "threads" /\ RunReturned
    /\ N = 2
    /\ OnlyRaised(Cur, 1)
    /\ ret[2].kind = "result" /\ ret[2].err = None
    /\ ok = 1 /\ skipped = 1
    /\ fs[ret[2].name] = prev.fs[ret[2].name]

\* C6: two runs over the same batch, with the content source answering the
\* same and the same writes failing in both, yield the same whatever their
\* strategies: the same (ok, skipped), handed back by both, and the same set
\* of written file names.
C6_StrategiesAgree ==
    (/\ prev # NoRun
     /\ Ended(prev) /\ Ended(Cur)
     /\ ~prev.broken /\ ~broken
     /\ SameFailures(prev, Cur))
    => /\ rpc = prev.rpc
       /\ ok = prev.ok
       /\ skipped = prev.skipped
       /\ Keys(Cur) = Keys(prev)

\* C6 apart from run_sequential raising: all other pairs of runs with the
\* same failing writes return the same (ok, skipped) and write the same set
\* of file names.
C6_StrategiesAgreeUnlessSequentialRaises ==
    (/\ prev # NoRun
     /\ Ended(prev) /\ Ended(Cur)
     /\ ~prev.broken /\ ~broken
     /\ SameFailures(prev, Cur)
     /\ ~(prev.mode = "seq" /\ ~Clean(prev))
     /\ ~(mode = "seq" /\ ~Clean(Cur)))
    => /\ prev.rpc = "returned" /\ RunReturned
       /\ ok = prev.ok
       /\ skipped = prev.skipped
       /\ Keys(Cur) = Keys(prev)

\* the tag the claim gives each exception of the content source
TagOf(exc) ==
    CASE exc = "PageError" -> "PageError"
      [] exc = "DisambiguationError" -> "Disambiguation"
      [] exc = "HTTPTimeoutError" -> "Timeout"
      [] OTHER -> "Unexpected"

\* C7: whenever the content source raises for a title, fetch_page_references
\* hands back a result (nothing propagates: the item's processing returns)
\* with a non-null error tagged PageError, Disambiguation, Timeout or
\* Unexpected after the exception, an empty payload and the requested title.
C7_FetchCapturesEveryError ==
    \A i \in Idx :
        LET page == Wikipedia[titles[i]]
        IN  (res[i] # NoResult /\ page.exc # "None")
            => /\ res[i].error # None
               /\ res[i].error = <<TagOf(page.exc), page.msg>>
               /\ res[i].references = <<>>
               /\ res[i].title = titles[i]
               /\ ret[i] = Returned(titles[i], res[i].error)

C7_Witness ==
    /\ mode = "threads"
    /\ titles = << <<"D">> >>
    /\ pc[1] = "reported"
    /\ res[1] = FetchResult(<<"D">>, <<>>, <<"Disambiguation", "may refer to">>)
    /\ lines = << Skipped(1, <<"D">>, <<"Disambiguation", "may refer to">>) >>

\* any two successfully fetched items of the batch that are saved under the
\* same file name have the same text to save
SamePayloadPerKey ==
    \A i, j \in Idx :
        (/\ res[i].error = None
         /\ res[j].error = None
         /\ FileName(res[i]) = FileName(res[j]))
        => Join(res[i].references) = Join(res[j].references)

\* C8 as stated: the same strategy run twice over the same batch, no task
\* raising, leaves the same files with the same contents and returns the
\* same aggregate.
C8_RerunIsIdempotent ==
    (/\ prev # NoRun
     /\ prev.mode = mode
     /\ prev.rpc = "returned" /\ RunReturned
     /\ Clean(prev) /\ Clean(Cur))
    => /\ fs = prev.fs
       /\ ok = prev.ok
       /\ skipped = prev.skipped

\* no two submissions saved under the same file name differ in their text or
\* fail in their write
NoRacingKeys ==
    /\ SamePayloadPerKey
    /\ \A i, j \in Idx :
          (/\ i # j
           /\ res[i].error = None
           /\ res[j].error = None
           /\ FileName(res[i]) = FileName(res[j]))
          => ret[i].kind # "exception"

\* C8 amended: the same strategy run twice over the same batch, the same
\* writes failing in both runs and no worker process dying, leaves the same
\* files with the same contents and ends the same way with the same counts,
\* provided the strategy is sequential or no two items saved under the same
\* file name differ in their payload or fail in their write.
C8_RerunIsIdempotentWithoutRacingKeys ==
    (/\ prev # NoRun
     /\ prev.mode = mode
     /\ Ended(prev) /\ Ended(Cur)
     /\ ~prev.broken /\ ~broken
     /\ SameFailures(prev, Cur)
     /\ (mode = "seq" \/ NoRacingKeys))
    => /\ fs = prev.fs
       /\ rpc = prev.rpc
       /\ ok = prev.ok
       /\ skipped = prev.skipped

C8_Witness ==
    /\ prev # NoRun
    /\ prev.mode = "threads" /\ mode = "threads" /\ max_workers = 2
    /\ prev.rpc = "returned" /\ RunReturned
    /\ Clean(prev) /\ Clean(Cur)
    /\ titles = << <<"A">>, <<"a">> >>
    /\ lines[1].i = 2
    /\ ok = 2
    /\ fs = prev.fs
    /\ DOMAIN fs = { <<"A">> \o TxtExt }
    /\ fs[<<"A">> \o TxtExt] = <<"r", "1", "\n", "r", "2">>

\* C9 as stated: after a run in which no task raises, the file of every item
\* whose fetch succeeded holds the item's payload joined by newlines.
C9_FileHoldsItsItemsPayload ==
    (RunReturned /\ Clean(Cur))
    => \A i \in Idx :
          res[i].error = None
          => /\ FileName(res[i]) \in DOMAIN fs
             /\ fs[FileName(res[i])] = Join(res[i].references)

ScenarioABC == << <<"A">>, <<"B">>, <<"C">> >>

\* C9 amended: after the run the file of every item reported as written holds
\* the item's payload joined by newlines, provided every other submission
\* that opened the same file completed its write and wrote the same text;
\* and the batch [A, B, C], no task raising, gives ok = 2, skipped = 1, A.txt
\* = "r1\nr2", C.txt empty and no other file.
C9_FileHoldsPayloadUnlessOverwritten ==
    /\ RunReturned
       => \A i \in Oks :
             (\A t \in touched :
                 (t.fn = ret[i].name /\ t.i # i)
                 => /\ ret[t.i] = Returned(t.fn, None)
                    /\ Join(res[t.i].references) = Join(res[i].references))
             => /\ ret[i].name = FileName(res[i])
                /\ ret[i].name \in DOMAIN fs
                /\ fs[ret[i].name] = Join(res[i].references)
    /\ (RunReturned /\ Clean(Cur) /\ titles = ScenarioABC)
       => /\ ok = 2
          /\ skipped = 1
          /\ DOMAIN fs = { <<"A">> \o TxtExt, <<"C">> \o TxtExt }
          /\ fs[<<"A">> \o TxtExt] = <<"r", "1", "\n", "r", "2">>
          /\ fs[<<"C">> \o TxtExt] = <<>>

C9_Witness ==
    /\ RunReturned /\ Clean(Cur)
    /\ mode = "procs" /\ max_workers = 2
    /\ titles = ScenarioABC
    /\ lines[1].i = 3
    /\ fs[<<"A">> \o TxtExt] = <<"r", "1", "\n", "r", "2">>

\* C10 as stated: a run over an empty output directory, no task raising,
\* leaves as many files as it counted in ok.
C10_AsManyFilesAsOk ==
    (RunReturned /\ prev = NoRun /\ Clean(Cur))
    => Cardinality(DOMAIN fs) = ok

OkNames == { ret[i].name : i \in Oks }

\* C10 amended: a run over an empty output directory leaves the files named
\* after the items counted in ok, plus at most the files of tasks that raised
\* after a successful fetch; with no task raising their number is the number
\* of distinct file names among the ok items, at most ok, and equal to ok
\* exactly when those names are pairwise distinct.
C10_FilesAreDistinctOkNames ==
    (RunReturned /\ prev = NoRun)
    => /\ OkNames \subseteq DOMAIN fs
       /\ DOMAIN fs \subseteq
             OkNames \cup { FileName(res[i]) : i \in { j \in Excepted : res[j].error = None } }
       /\ Clean(Cur)
          => /\ DOMAIN fs = OkNames
             /\ Cardinality(DOMAIN fs) <= ok
             /\ (Cardinality(DOMAIN fs) = ok)
                   <=> (\A i, j \in Oks : ret[i].name = ret[j].name => i = j)

C10_Witness ==
    /\ RunReturned /\ prev = NoRun /\ Clean(Cur)
    /\ mode = "threads"
    /\ titles = << <<"Q", "/">>, <<"a">>, <<"Q", ":">> >>
    /\ ok = 3
    /\ DOMAIN fs = { <<"Q", "_">> \o TxtExt, <<"A">> \o TxtExt }

\* submissions whose future failed because the process pool broke
BrokenOnes ==
    { i \in Idx : ret[i].kind = "exception" /\ ret[i].err[1] = "BrokenProcessPool" }

\* C11: under run_processes, when a worker process dies while it processes
\* one submission, the run is not aborted and that submission, and no other,
\* fails for it (is reported as skipped with a process error).
C11_WorkerCrashSkipsOnlyItsItem ==
    (mode = "procs" /\ broken)
    => /\ rpc # "raised"
       /\ Cardinality(BrokenOnes) = 1

\* C12: a run over the empty batch counts nothing, prints nothing, opens and
\* writes no file, raises nothing and can return at once.
C12_EmptyBatchDoesNothing ==
    N = 0
    => /\ ok = 0
       /\ skipped = 0
       /\ lines = <<>>
       /\ touched = {}
       /\ DOMAIN fs = {}
       /\ rpc \in {"running", "returned"}
       /\ rpc = "running" => ENABLED Return

C12_Witness ==
    /\ N = 0
    /\ prev # NoRun
    /\ prev.mode = "seq" /\ prev.rpc = "returned" /\ prev.ok = 0 /\ prev.skipped = 0
    /\ mode = "procs" /\ RunReturned
    /\ ok = 0 /\ skipped = 0 /\ lines = <<>>

\* C13: under run_sequential a title is not fetched before every earlier
\* title has been fetched, saved and reported; a reported title has been
\* fetched, and saved before its "wrote" line; the status lines are those of
\* the titles in input order.
C13_SequentialInInputOrder ==
    mode = "seq"
    => /\ \A i \in Idx : pc[i] # "new" => \A j \in 1 .. (i - 1) : pc[j] = "reported"
       /\ \A i \in Idx : pc[i] \in {"open", "write", "done", "reported"} => res[i] # NoResult
       /\ \A i \in Idx : pc[i] = "reported" <=> i <= Len(lines)
       /\ \A k \in 1 .. Len(lines) :
             /\ lines[k].i = k
             /\ lines[k].tag = "wrote"
                   => /\ [i |-> k, fn |-> lines[k].what] \in touched
                      /\ ret[k] = Returned(lines[k].what, None)

C13_Witness ==
    /\ mode = "seq" /\ RunReturned
    /\ titles = ScenarioABC
    /\ Len(lines) = 3
    /\ lines[1].tag = "wrote" /\ lines[2].tag = "skipped" /\ lines[3].tag = "wrote"

InProcessing == { i \in Idx : Processing(i) }

\* the step belongs to one run (it is not the start of a second run)
SameRun == prev' = prev

\* C14: under run_threads and run_processes with pool size k, at every moment
\* at most k tasks are being processed; a task is submitted only for a title
\* that has none yet (one task per title); and a submitted task starts only
\* when fewer than k tasks are being processed, waiting as submitted until then.
C14_AtMostKProcessing ==
    /\ [](Pool => Cardinality(InProcessing) <= max_workers)
    /\ [][ (Pool /\ SameRun)
           => \A i \in Idx :
                 /\ (pc'[i] = "submitted" /\ pc[i] # "submitted") => pc[i] = "new"
                 /\ pc[i] = "new" => pc'[i] \in {"new", "submitted"}
                 /\ (pc[i] = "submitted" /\ pc'[i] = "fetch")
                       => Cardinality(InProcessing) < max_workers ]_vars

C14_Witness ==
    /\ mode = "threads"
    /\ max_workers = 2
    /\ N = 3
    /\ pc[1] = "write" /\ pc[2] = "fetch" /\ pc[3] = "submitted"

\* C15: once the tasks are submitted, any task that is complete and not yet
\* reported can be reported at once, whatever the other tasks are doing.
C15_ReportsInCompletionOrder ==
    \A i \in Idx :
        (/\ Pool
         /\ rpc = "running"
         /\ \A j \in Idx : pc[j] # "new"
         /\ pc[i] = "done")
        => ENABLED Report(i)

C15_Witness ==
    /\ mode = "procs"
    /\ max_workers = 2
    /\ N = 3
    /\ pc[1] = "fetch"
    /\ pc[2] = "reported"
    /\ pc[3] = "done"
    /\ Len(lines) = 1 /\ lines[1].i = 2
    /\ ok + skipped = 1

\* the moves of one submission: Submitted (new, submitted), Processing (fetch,
\* open, write), Succeeded or Failed (done, then reported)
ForwardSteps ==
    { <<"new", "submitted">>, <<"new", "open">>, <<"new", "done">>,
      <<"submitted", "fetch">>, <<"submitted", "done">>,
      <<"fetch", "open">>, <<"fetch", "done">>,
      <<"open", "write">>, <<"open", "done">>,
      <<"write", "done">>, <<"done", "reported">> }

\* C16: within a run a submission only moves forward along Submitted,
\* Processing, Succeeded or Failed (a queued task fails unprocessed only when
\* the process pool breaks); its title is fetched at most once, in the step
\* that takes it out of fetching; and once it is Succeeded or Failed its
\* result and outcome never change and it opens no file.
C16_NoRetry ==
    [][ SameRun
        => \A i \in Idx :
              /\ pc'[i] # pc[i] => <<pc[i], pc'[i]>> \in ForwardSteps
              /\ (pc[i] = "submitted" /\ pc'[i] = "done") => (mode = "procs" /\ broken')
              /\ res'[i] # res[i]
                    => /\ res[i] = NoResult
                       /\ pc[i] \in {"new", "fetch"}
                       /\ pc'[i] \in {"open", "done"}
              /\ pc[i] \in {"done", "reported"}
                    => /\ res'[i] = res[i]
                       /\ ret'[i] = ret[i]
              /\ \A t \in touched' \ touched : t.i = i => pc[i] = "open" ]_vars

C16_Witness ==
    /\ mode = "threads"
    /\ titles = << <<"B">>, <<"A">> >>
    /\ pc[1] = "reported"
    /\ res[1].error # None
    /\ lines = << Skipped(1, <<"B">>, res[1].error) >>
    /\ pc[2] = "write"
    /\ touched = { [i |-> 2, fn |-> <<"A">> \o TxtExt] }

\* C17: after a pool run in which no task raised, every file opened in the
\* run holds the complete text of one of the items saved under its name.
C17_CollisionIsLastWriterWins ==
    (Pool /\ RunReturned /\ Clean(Cur))
    => \A t \in touched :
          fs[t.fn] \in { Join(res[u.i].references) : u \in { v \in touched : v.fn = t.fn } }

Reported == { i \in Idx : pc[i] = "reported" }

\* C18: under run_threads and run_processes ok + skipped is at every moment
\* the number of status lines printed and of submissions reported; the
\* counters change only in a step in which the orchestrator reports one
\* complete task, by one in all, and no step of a worker changes them.
C18_CountersFollowReports ==
    /\ [](Pool => /\ ok + skipped = Len(lines)
                  /\ ok + skipped = Cardinality(Reported)
                  /\ ok = Cardinality(Oks))
    /\ [][ (Pool /\ SameRun)
           => /\ (ok' # ok \/ skipped' # skipped)
                    => /\ ok' + skipped' = ok + skipped + 1
                       /\ ok' >= ok /\ skipped' >= skipped
                       /\ \E i \in Idx : /\ pc[i] = "done" /\ pc'[i] = "reported"
                                         /\ \A j \in Idx \ {i} : pc'[j] = pc[j]
              /\ (\E i \in Idx : pc'[i] # pc[i] /\ pc'[i] # "reported")
                    => (ok' = ok /\ skipped' = skipped) ]_vars

C18_Witness ==
    /\ mode = "threads"
    /\ max_workers = 2
    /\ N = 3
    /\ pc[1] = "reported" /\ pc[2] = "write" /\ pc[3] = "fetch"
    /\ ok = 1 /\ skipped = 0
    /\ Len(lines) = 1

\* C19: when run_threads or run_processes has returned, every submission
\* has been reported (none is queued or being processed); from then on the
\* output directory does not change; and an item counted in ok has completed
\* the write of its file.
C19_ReturnsAfterAllTasks ==
    /\ []((Pool /\ RunReturned) => (\A i \in Idx : pc[i] = "reported"))
    /\ [](Pool => \A i \in Oks :
                     /\ ret[i] = Returned(FileName(res[i]), None)
                     /\ [i |-> i, fn |-> FileName(res[i])] \in touched
                     /\ FileName(res[i]) \in DOMAIN fs)
    /\ [][ (Pool /\ RunReturned /\ SameRun) => (fs' = fs /\ pc' = pc) ]_vars

C19_Witness ==
    /\ mode = "procs"
    /\ max_workers = 2
    /\ RunReturned
    /\ titles = << <<"C">>, <<"B">>, <<"A">> >>
    /\ ok = 2 /\ skipped = 1
    /\ lines[3].i = 1
    /\ DOMAIN fs = { <<"A">> \o TxtExt, <<"C">> \o TxtExt }

\* C20: under fair scheduling, with every fetch and every write returning or
\* raising and no worker process dying, every run that has started returns,
\* every submission reported.
C20_EveryRunReturns ==
    (rpc = "running") ~> ((RunReturned /\ \A i \in Idx : pc[i] = "reported") \/ broken)

\* how far a submission is
Rank(p) ==
    CASE p = "new" -> 0
      [] p = "submitted" -> 1
      [] p = "fetch" -> 2
      [] p = "open" -> 3
      [] p = "write" -> 4
      [] p = "done" -> 5
      [] p = "reported" -> 6

RECURSIVE SumRanks(_, _)
SumRanks(p, n) == IF n = 0 THEN 0 ELSE Rank(p[n]) + SumRanks(p, n - 1)

\* how far the run is: at most 6 * N + 1
Progress(p, r) == SumRanks(p, Len(p)) + (IF r = "running" THEN 0 ELSE 1)

\* C20, first half of the argument: a run that has not ended can take a step
\* of its own, so that under Fairness it does not stop.
C20_RunningRunCanStep ==
    rpc = "running" => ENABLED (RunStep \/ Return)

\* C20 apart from run_sequential raising, second half: every step of a run
\* takes it further, so that a run that does not stop ends within 6 * N + 1
\* steps; and when it has ended it has returned with every submission
\* reported, unless a write raised under run_sequential or a worker process
\* died.
C20_EveryRunEnds ==
    /\ [][ SameRun => Progress(pc', rpc') > Progress(pc, rpc) ]_vars
    /\ [](Ended(Cur)
            => \/ RunReturned /\ \A i \in Idx : pc[i] = "reported"
               \/ mode = "procs" /\ broken
               \/ mode = "seq" /\ rpc = "raised" /\ ~Clean(Cur))

====
